---- MODULE Spec2Model ----
(***************************************************************************)
(* Model of the calculator of src/src/main.rs: the Calculator struct, its  *)
(* push/reset/undo/update_display methods, and the two event handlers of   *)
(* App (button click, history replay) that drive it through the shared     *)
(* Rc<RefCell<Calculator>> and publish to the display/history signals.     *)
(*                                                                         *)
(* Strings are sequences of one-character strings.  An Option is a         *)
(* sequence of length at most one: << >> is None, <<x>> is Some(x).        *)
(* An f64 is modelled on the values the model can compute exactly: the     *)
(* signed dyadic rationals (-1)^neg * num / 2^exp (num odd or exp = 0),    *)
(* with a signed zero.  On these f64 arithmetic is exact and Display       *)
(* prints the exact decimal expansion.                                     *)
(***************************************************************************)
EXTENDS Integers, Sequences, FiniteSets

\* ------------------------------------------------------------------ bounds
\* longest current_number the append branch is explored up to
MaxLen == 2
\* largest magnitude of an f64 the model computes with
MaxMag == 2
\* most binary fraction digits of an f64 the model computes with
MaxFracBits == 1
\* most history entries the equals branch is explored up to
MaxHist == 1
\* longest rendered string handed to the replay handler on its own
MaxRendered == 3

\* ------------------------------------------------------- Option<T> helpers
None == << >>

Some(x) == <<x>>

IsSome(o) == Len(o) = 1

Get(o) == o[1]

\* --------------------------------------------------------------- f64 model
RECURSIVE Pow(_, _)
Pow(b, n) == IF n = 0 THEN 1 ELSE b * Pow(b, n - 1)

Abs(i) == IF i < 0 THEN 0 - i ELSE i

Max(a, b) == IF a >= b THEN a ELSE b

\* normal form of (-1)^neg * num / 2^exp
RECURSIVE F64(_, _, _)
F64(neg, num, exp) ==
    IF exp > 0 /\ num % 2 = 0
    THEN F64(neg, num \div 2, exp - 1)
    ELSE [neg |-> neg, num |-> num, exp |-> exp]

\* the numerator of v over the denominator 2^e, signed
Scaled(v, e) == (IF v.neg THEN -1 ELSE 1) * v.num * Pow(2, e - v.exp)

\* f64 == 0.0 (true of both zeros)
IsZero(v) == v.num = 0

FNeg(v) == [v EXCEPT !.neg = ~v.neg]

\* prev + current; an exact zero sum is -0 only when both operands are negative
FAdd(a, b) ==
    LET e == Max(a.exp, b.exp)
        s == Scaled(a, e) + Scaled(b, e)
    IN IF s = 0 THEN F64(a.neg /\ b.neg, 0, 0) ELSE F64(s < 0, Abs(s), e)

\* prev - current
FSub(a, b) == FAdd(a, FNeg(b))

\* prev * current
FMul(a, b) == F64(a.neg # b.neg, a.num * b.num, a.exp + b.exp)

\* the odd part of a positive integer, and the exponent of its power of two
RECURSIVE OddPart(_)
OddPart(n) == IF n % 2 = 0 THEN OddPart(n \div 2) ELSE n

RECURSIVE TwoPart(_)
TwoPart(n) == IF n % 2 = 0 THEN 1 + TwoPart(n \div 2) ELSE 0

\* the quotient a / b (b nonzero) is a dyadic rational, so f64 computes it exactly
DivExact(a, b) == a.num % OddPart(b.num) = 0

\* prev / current for current nonzero and DivExact(prev, current)
FDiv(a, b) ==
    LET q == a.num \div OddPart(b.num)
        up == b.exp
        down == a.exp + TwoPart(b.num)
    IN IF up >= down
       THEN F64(a.neg # b.neg, q * Pow(2, up - down), 0)
       ELSE F64(a.neg # b.neg, q, down - up)

\* the f64 values the model computes with
InDomain(v) == v.exp <= MaxFracBits /\ v.num <= MaxMag * Pow(2, v.exp)

\* --------------------------------------------------------- f64 <-> string
DigitChars == <<"0", "1", "2", "3", "4", "5", "6", "7", "8", "9">>

IsDigit(c) == \E i \in 1..10 : DigitChars[i] = c

DigitVal(c) == (CHOOSE i \in 1..10 : DigitChars[i] = c) - 1

RECURSIVE NatToStr(_)
NatToStr(n) ==
    IF n < 10 THEN <<DigitChars[n + 1]>>
    ELSE NatToStr(n \div 10) \o <<DigitChars[(n % 10) + 1]>>

RECURSIVE StrToNat(_)
StrToNat(s) ==
    IF s = << >> THEN 0
    ELSE 10 * StrToNat(SubSeq(s, 1, Len(s) - 1)) + DigitVal(s[Len(s)])

\* n written with exactly k digits (leading zeros)
RECURSIVE PadDigits(_, _)
PadDigits(n, k) ==
    IF k = 0 THEN << >>
    ELSE PadDigits(n \div 10, k - 1) \o <<DigitChars[(n % 10) + 1]>>

\* f64's Display (to_string, "{}"): sign, integer part, and the fraction
\* digits only when there are any; -0.0 prints as "-0"
to_string(v) ==
    LET den == Pow(2, v.exp)
        ip == v.num \div den
        fp == (v.num % den) * Pow(5, v.exp)
    IN (IF v.neg THEN <<"-">> ELSE << >>)
       \o NatToStr(ip)
       \o (IF v.exp = 0 THEN << >> ELSE <<".">> \o PadDigits(fp, v.exp))

\* position of the first "." of s, or 0
RECURSIVE DotPos(_, _)
DotPos(s, i) ==
    IF i > Len(s) THEN 0
    ELSE IF s[i] = "." THEN i
    ELSE DotPos(s, i + 1)

AllDigits(s) == \A i \in 1..Len(s) : IsDigit(s[i])

\* str::parse::<f64>() on the strings the model builds (no exponent, inf or
\* nan forms): [+-]? (digits [. digits?] | . digits).  kind is "err" for a
\* ParseFloatError, "val" for a dyadic value v, "inexact" for a decimal that
\* f64 rounds (outside the modelled values).
Parse(s) ==
    LET signed == Len(s) > 0 /\ s[1] \in {"-", "+"}
        body == IF signed THEN Tail(s) ELSE s
        dot == DotPos(body, 1)
        ipart == IF dot = 0 THEN body ELSE SubSeq(body, 1, dot - 1)
        fpart == IF dot = 0 THEN << >> ELSE SubSeq(body, dot + 1, Len(body))
        wellFormed == /\ AllDigits(ipart)
                      /\ AllDigits(fpart)
                      /\ Len(ipart) + Len(fpart) > 0
        n == StrToNat(ipart \o fpart)
        f == Len(fpart)
        neg == signed /\ s[1] = "-"
    IN IF ~wellFormed THEN [kind |-> "err"]
       ELSE IF n % Pow(5, f) # 0 THEN [kind |-> "inexact"]
       ELSE [kind |-> "val", v |-> F64(neg, n \div Pow(5, f), f)]

\* ------------------------------------------------------------- Calculator
\* the match arm "+" | "-" | "*" | "/"
OperatorTokens == {<<"+">>, <<"-">>, <<"*">>, <<"/">>}

Equals == <<"=">>

ClearAll == <<"a", "c">>

Backspace == <<"<">>

\* Err("División por cero") and Err("Operación inválida")
DivisionByZero == "DivisionByZero"

InvalidOperation == "InvalidOperation"

\* Calculator::new()
new ==
    [display |-> <<"0">>,
     current_number |-> << >>,
     operation |-> None,
     previous_number |-> None,
     history |-> << >>]

\* a display that is never recomputed
update_display_stale(c) == c

update_display(c) ==
    [c EXCEPT !.display = IF c.current_number = << >>
                          THEN <<"0">>
                          ELSE c.current_number]

\* a reset that also empties the history
reset_clearsHistory(c) ==
    [c EXCEPT !.display = <<"0">>,
              !.current_number = << >>,
              !.operation = None,
              !.previous_number = None,
              !.history = << >>]

\* a reset that keeps the pending left operand
reset_keepsPrevious(c) ==
    [c EXCEPT !.display = <<"0">>,
              !.current_number = << >>,
              !.operation = None]

reset(c) ==
    [c EXCEPT !.display = <<"0">>,
              !.current_number = << >>,
              !.operation = None,
              !.previous_number = None]

\* an undo that clears the whole number
undo_clearsAll(c) ==
    IF c.current_number # << >>
    THEN update_display([c EXCEPT !.current_number = << >>])
    ELSE c

undo(c) ==
    IF c.current_number # << >>
    THEN update_display(
             [c EXCEPT !.current_number = SubSeq(@, 1, Len(@) - 1)])
    ELSE c

\* the subtraction arm with its operands exchanged
Compute_swappedSub(op, prev, current) ==
    CASE op = "+" -> [ret |-> "Ok", v |-> FAdd(prev, current)]
      [] op = "-" -> [ret |-> "Ok", v |-> FSub(current, prev)]
      [] op = "*" -> [ret |-> "Ok", v |-> FMul(prev, current)]
      [] op = "/" -> IF IsZero(current)
                     THEN [ret |-> DivisionByZero]
                     ELSE [ret |-> "Ok", v |-> FDiv(prev, current)]
      [] OTHER -> [ret |-> InvalidOperation]

\* the match without its multiplication arm
Compute_noMulArm(op, prev, current) ==
    CASE op = "+" -> [ret |-> "Ok", v |-> FAdd(prev, current)]
      [] op = "-" -> [ret |-> "Ok", v |-> FSub(prev, current)]
      [] op = "/" -> IF IsZero(current)
                     THEN [ret |-> DivisionByZero]
                     ELSE [ret |-> "Ok", v |-> FDiv(prev, current)]
      [] OTHER -> [ret |-> InvalidOperation]

\* the match on op of the equals branch: the result, or the early return
Compute(op, prev, current) ==
    CASE op = "+" -> [ret |-> "Ok", v |-> FAdd(prev, current)]
      [] op = "-" -> [ret |-> "Ok", v |-> FSub(prev, current)]
      [] op = "*" -> [ret |-> "Ok", v |-> FMul(prev, current)]
      [] op = "/" -> IF IsZero(current)
                     THEN [ret |-> DivisionByZero]
                     ELSE [ret |-> "Ok", v |-> FDiv(prev, current)]
      [] OTHER -> [ret |-> InvalidOperation]

\* format!("{} {} {} = {}", prev, op, current, result)
FormatOperation(prev, op, current, result) ==
    to_string(prev) \o <<" ", op, " ">> \o to_string(current)
        \o <<" ", "=", " ">> \o to_string(result)

\* an operator arm without its is_empty test
HasOperand_always(c) == TRUE

\* if !self.current_number.is_empty()
HasOperand(c) == c.current_number # << >>

\* an operator arm that keeps a left operand that is already pending
PushOperator_keepsPending(c, value) ==
    IF HasOperand(c)
    THEN LET c1 == [c EXCEPT !.operation = Some(Head(value))]
             p == Parse(c.current_number)
         IN IF p.kind = "err"
            THEN [calc |-> c1, ret |-> "panic"]
            ELSE [calc |-> update_display(
                               [c1 EXCEPT
                                  !.previous_number =
                                      IF IsSome(@) THEN @ ELSE Some(p.v),
                                  !.current_number = << >>]),
                  ret |-> "Ok"]
    ELSE [calc |-> update_display(c), ret |-> "Ok"]

\* the operator arm of push: operation is assigned before the operand is
\* parsed, and parse().unwrap() panics on a ParseFloatError
PushOperator(c, value) ==
    IF HasOperand(c)
    THEN LET c1 == [c EXCEPT !.operation = Some(Head(value))]
             p == Parse(c.current_number)
         IN IF p.kind = "err"
            THEN [calc |-> c1, ret |-> "panic"]
            ELSE [calc |-> update_display(
                               [c1 EXCEPT !.previous_number = Some(p.v),
                                          !.current_number = << >>]),
                  ret |-> "Ok"]
    ELSE [calc |-> update_display(c), ret |-> "Ok"]

\* an early return that resets the calculator first
EarlyReturn_afterReset(c, err) == [calc |-> reset(c), ret |-> err]

\* return Err(..): push ends before update_display, the calculator as it was
EarlyReturn(c, err) == [calc |-> c, ret |-> err]

\* an equals that reports an error when it has nothing to compute
EqualsIgnored_asError(c) == [calc |-> c, ret |-> InvalidOperation]

\* the "=" arm when either if-let fails: nothing but update_display and Ok
EqualsIgnored(c) == [calc |-> update_display(c), ret |-> "Ok"]

\* a commit that clears current_number as the operator arm does
Commit_clearsCurrent(c, prev, op, current, result) ==
    [c EXCEPT !.history = Append(@, FormatOperation(prev, op, current, result)),
              !.current_number = << >>,
              !.previous_number = None,
              !.operation = None]

\* the commit of a computed result: history.push, current_number =
\* result.to_string(), previous_number and operation cleared
Commit(c, prev, op, current, result) ==
    [c EXCEPT !.history = Append(@, FormatOperation(prev, op, current, result)),
              !.current_number = to_string(result),
              !.previous_number = None,
              !.operation = None]

\* the "=" arm of push
PushEquals(c) ==
    IF IsSome(c.previous_number) /\ IsSome(c.operation)
           /\ Parse(c.current_number).kind # "err"
    THEN LET prev == Get(c.previous_number)
             op == Get(c.operation)
             current == Parse(c.current_number).v
             r == Compute(op, prev, current)
         IN IF r.ret # "Ok"
            THEN EarlyReturn(c, r.ret)
            ELSE [calc |-> update_display(Commit(c, prev, op, current, r.v)),
                  ret |-> "Ok"]
    ELSE EqualsIgnored(c)

\* an append that refuses a second decimal point
PushAppend_oneDot(c, value) ==
    IF value = <<".">> /\ \E i \in 1..Len(c.current_number) :
                             c.current_number[i] = "."
    THEN c
    ELSE [c EXCEPT !.current_number = @ \o value]

\* the default arm of push: self.current_number.push_str(value)
PushAppend(c, value) == [c EXCEPT !.current_number = @ \o value]

\* Calculator::push: the calculator it leaves and what it returns
\* ("panic" when it does not return)
push(c, value) ==
    CASE value \in OperatorTokens -> PushOperator(c, value)
      [] value = Equals -> PushEquals(c)
      [] value = ClearAll -> [calc |-> update_display(reset(c)), ret |-> "Ok"]
      [] value = Backspace -> [calc |-> update_display(undo(c)), ret |-> "Ok"]
      [] OTHER -> [calc |-> update_display(PushAppend(c, value)),
                   ret |-> "Ok"]

\* ------------------------------------------------------------ replay parse
\* operation.split("=").last(): the text after the last "=", the whole
\* text when there is none (split always yields an item, so unwrap_or's
\* default is never taken)
RECURSIVE SplitLast(_)
SplitLast(s) ==
    IF \E i \in 1..Len(s) : s[i] = "="
    THEN SplitLast(Tail(s))
    ELSE s

RECURSIVE TrimStart(_)
TrimStart(s) == IF s # << >> /\ s[1] = " " THEN TrimStart(Tail(s)) ELSE s

RECURSIVE TrimEnd(_)
TrimEnd(s) ==
    IF s # << >> /\ s[Len(s)] = " "
    THEN TrimEnd(SubSeq(s, 1, Len(s) - 1))
    ELSE s

Trim(s) == TrimEnd(TrimStart(s))

\* a replay that forgets to trim
ReplayResult_noTrim(operation) == SplitLast(operation)

ReplayResult(operation) == Trim(SplitLast(operation))

\* ------------------------------------------------------------------- App
VARIABLES
    calculator,     \* the Calculator inside the Rc<RefCell<..>>
    borrowed,       \* the RefCell is mutably borrowed
    display_sig,    \* the display signal
    history_sig,    \* the history signal
    published,      \* the signals the last handler wrote
    handler,        \* the handler that last got hold of the calculator
    value,          \* what it handed over: the clicked token, the replayed
                    \* entry
    outcome         \* how it ended: push's return, "panic" (unwrap),
                    \* "BorrowMutError" (borrow_mut), "BorrowError" (a view)

vars ==
    <<calculator, borrowed, display_sig, history_sig, published, handler,
      value, outcome>>

\* the values of the buttons of the view, with "0" and "1" for the digits
Tokens ==
    {<<"0">>, <<"1">>, <<".">>, Equals, ClearAll, Backspace}
        \cup OperatorTokens

\* the calls the model explores: operands stay within the modelled f64
\* values, typed text within MaxLen, the history within MaxHist
Explored(c, v) ==
    CASE v \in OperatorTokens ->
             c.current_number # << >> =>
                 LET p == Parse(c.current_number)
                 IN p.kind = "err" \/ (p.kind = "val" /\ InDomain(p.v))
      [] v = Equals ->
             (IsSome(c.previous_number) /\ IsSome(c.operation)) =>
                 LET p == Parse(c.current_number)
                     prev == Get(c.previous_number)
                     op == Get(c.operation)
                 IN /\ p.kind # "inexact"
                    /\ p.kind = "val" =>
                         /\ InDomain(p.v)
                         /\ (op = "/" /\ ~IsZero(p.v)) => DivExact(prev, p.v)
                         /\ LET r == Compute(op, prev, p.v)
                            IN r.ret = "Ok" =>
                                 /\ InDomain(r.v)
                                 /\ Len(c.history) < MaxHist
      [] v \in {ClearAll, Backspace} -> TRUE
      [] OTHER -> Len(c.current_number) + Len(v) <= MaxLen

Init ==
    /\ calculator = new
    /\ borrowed = FALSE
    /\ display_sig = <<"0">>
    /\ history_sig = << >>
    /\ published = {}
    /\ handler = "none"
    /\ value = << >>
    /\ outcome = "none"

\* a handler that publishes whatever push returned
Publishes_always(ret) == TRUE

\* a handler that never publishes
Publishes_never(ret) == FALSE

\* if let Ok(_) = calc.push(&value)
Publishes(ret) == ret = "Ok"

\* the render closures a signal write re-runs while the handler still holds
\* its RefMut: move || display.get() reads the signal only, and the history
\* closure clones the Rc and builds the items' handlers; neither borrows
\* the RefCell
ViewBorrows == FALSE

\* on_clicked: borrow_mut, push, and on Ok publish display and history.
\* A panic inside push aborts with the RefMut never dropped; borrow_mut on a
\* borrowed cell panics before anything is touched.  The handler runs to
\* completion before the next event is dispatched; the only code that runs
\* under its RefMut is the re-render of the views on a signal write.
on_clicked(v) ==
    /\ Explored(calculator, v)
    /\ IF borrowed
       THEN /\ outcome' = "BorrowMutError"
            /\ published' = {}
            /\ UNCHANGED <<calculator, borrowed, display_sig, history_sig,
                           handler, value>>
       ELSE LET r == push(calculator, v)
            IN /\ handler' = "on_clicked"
               /\ value' = v
               /\ calculator' = r.calc
               /\ outcome' = IF Publishes(r.ret) /\ ViewBorrows
                             THEN "BorrowError"
                             ELSE r.ret
               /\ borrowed' = (r.ret = "panic" \/ (Publishes(r.ret) /\ ViewBorrows))
               /\ IF Publishes(r.ret)
                  THEN /\ display_sig' = r.calc.display
                       /\ history_sig' = r.calc.history
                       /\ published' = {"display", "history"}
                  ELSE /\ published' = {}
                       /\ UNCHANGED <<display_sig, history_sig>>

\* the "Usar" button of the i-th rendered history item
replay(i) ==
    IF borrowed
    THEN /\ outcome' = "BorrowMutError"
         /\ published' = {}
         /\ UNCHANGED <<calculator, borrowed, display_sig, history_sig,
                        handler, value>>
    ELSE LET c == update_display(
                         [calculator EXCEPT
                            !.current_number = ReplayResult(history_sig[i])])
            IN /\ handler' = "replay"
               /\ value' = history_sig[i]
               /\ calculator' = c
               /\ display_sig' = c.display
               /\ published' = {"display"}
               /\ outcome' = IF ViewBorrows THEN "BorrowError" ELSE "Ok"
               /\ borrowed' = ViewBorrows
               /\ UNCHANGED history_sig

Clicked == \E v \in Tokens : on_clicked(v)

Replayed == \E i \in 1..Len(history_sig) : replay(i)

Next == Clicked \/ Replayed

Spec == Init /\ [][Next]_vars

\* ------------------------------------------- the replay handler on its own
\* the characters of the rendered strings the handler is tried on
RenderedChars == {"1", "-", " ", "="}

\* every string of at most MaxRendered of them, with and without a "="
RenderedStrings ==
    UNION {[1..k -> RenderedChars] : k \in 0..MaxRendered}

\* a calculator whose history holds one rendered string, already published
ReplayInit ==
    /\ \E s \in RenderedStrings :
           /\ calculator = [new EXCEPT !.history = <<s>>]
           /\ history_sig = <<s>>
    /\ borrowed = FALSE
    /\ display_sig = <<"0">>
    /\ published = {}
    /\ handler = "none"
    /\ value = << >>
    /\ outcome = "none"

ReplayNext == \E i \in 1..Len(history_sig) : replay(i)

ReplaySpec == ReplayInit /\ [][ReplayNext]_vars

\* ------------------------------------------------------------ properties
IsPrefix(s, t) == Len(s) <= Len(t) /\ SubSeq(t, 1, Len(s)) = s

\* the step is a click whose token reached push
PushStep(v) ==
    handler' = "on_clicked" /\ value' = v /\ outcome' # "BorrowMutError"

\* C1: in every reachable state display is "0" when current_number is empty
\* and is current_number otherwise
DisplayInvariant ==
    calculator.display =
        IF calculator.current_number = << >>
        THEN <<"0">>
        ELSE calculator.current_number

\* a replayed negative result is on display
DisplayInvariantWitness ==
    /\ handler = "replay"
    /\ outcome = "Ok"
    /\ calculator.current_number = <<"-", "1">>
    /\ calculator.display = <<"-", "1">>

\* C2: push never panics on malformed numeric text: every call returns
SubmitNeverThrows == outcome # "panic"

\* C3: "=" with a pending division and a current number that parses to zero
\* returns DivisionByZero and leaves every field of the calculator as it was
DivisionByZeroMutatesNothing ==
    [][(/\ PushStep(Equals)
        /\ IsSome(calculator.previous_number)
        /\ calculator.operation = Some("/")
        /\ Parse(calculator.current_number).kind = "val"
        /\ IsZero(Parse(calculator.current_number).v))
       => (outcome' = DivisionByZero /\ calculator' = calculator)]_vars

\* 1 / 0 = has failed: display "0", nothing in the history, the division pending
DivisionByZeroWitness ==
    /\ handler = "on_clicked"
    /\ value = Equals
    /\ outcome = DivisionByZero
    /\ calculator.display = <<"0">>
    /\ calculator.history = << >>
    /\ calculator.operation = Some("/")
    /\ calculator.previous_number = Some(F64(FALSE, 1, 0))

\* C4: in every reachable state operation is set exactly when
\* previous_number is set
PairingInvariant ==
    IsSome(calculator.operation) <=> IsSome(calculator.previous_number)

IsResultOf(r, op, p, c) ==
    LET e == p.exp + c.exp + r.exp
    IN CASE op = "+" -> Scaled(r, e) = Scaled(p, e) + Scaled(c, e)
         [] op = "-" -> Scaled(r, e) = Scaled(p, e) - Scaled(c, e)
         [] op = "*" -> Scaled(r, e) * Pow(2, e) = Scaled(p, e) * Scaled(c, e)
         [] op = "/" -> Scaled(r, e) * Scaled(c, e) = Scaled(p, e) * Pow(2, e)
         [] OTHER -> FALSE

\* C6: "=" with previous_number p and operation op set and a current number
\* that parses to c (not a division by zero) returns Ok, appends the one
\* entry "<p> <op> <c> = <r>" with r = p op c to the history, leaves the
\* string form of r in current_number and display, and clears
\* previous_number and operation
EqualsCommits ==
    [][(/\ PushStep(Equals)
        /\ IsSome(calculator.previous_number)
        /\ IsSome(calculator.operation)
        /\ Parse(calculator.current_number).kind = "val"
        /\ ~(/\ calculator.operation = Some("/")
             /\ IsZero(Parse(calculator.current_number).v)))
       => LET p == Get(calculator.previous_number)
              op == Get(calculator.operation)
              c == Parse(calculator.current_number).v
          IN /\ outcome' = "Ok"
             /\ Parse(calculator'.current_number).kind = "val"
             /\ LET r == Parse(calculator'.current_number).v
                IN /\ IsResultOf(r, op, p, c)
                   /\ calculator'.current_number = to_string(r)
                   /\ calculator'.display = to_string(r)
                   /\ calculator'.history =
                          Append(calculator.history,
                                 to_string(p) \o <<" ", op, " ">>
                                     \o to_string(c) \o <<" ", "=", " ">>
                                     \o to_string(r))
             /\ calculator'.previous_number = None
             /\ calculator'.operation = None]_vars

\* 0 - 1 = has given display "-1" and the history ["0 - 1 = -1"]
EqualsCommitsWitness ==
    /\ handler = "on_clicked"
    /\ value = Equals
    /\ outcome = "Ok"
    /\ calculator.display = <<"-", "1">>
    /\ calculator.history = << <<"0", " ", "-", " ", "1", " ", "=", " ", "-", "1">> >>
    /\ calculator.operation = None
    /\ calculator.previous_number = None

\* C7: "=" with previous_number or operation unset, or with a current number
\* that is empty or does not parse, returns Ok and changes no field
EqualsUnmetIsNoOp ==
    [][(/\ PushStep(Equals)
        /\ \/ ~IsSome(calculator.previous_number)
           \/ ~IsSome(calculator.operation)
           \/ Parse(calculator.current_number).kind = "err")
       => (outcome' = "Ok" /\ calculator' = calculator)]_vars

\* "=" was ignored with an operation pending and "." as the current number
EqualsUnmetWitness ==
    /\ handler = "on_clicked"
    /\ value = Equals
    /\ outcome = "Ok"
    /\ IsSome(calculator.previous_number)
    /\ calculator.current_number = <<".">>

\* C8: an operator token on an empty current_number returns Ok and changes
\* no field
OperatorWithoutOperandIsNoOp ==
    [][(/\ \E v \in OperatorTokens : PushStep(v)
        /\ calculator.current_number = << >>)
       => (outcome' = "Ok" /\ calculator' = calculator)]_vars

\* "*" was ignored while "+" was pending and no digit typed yet
OperatorWithoutOperandWitness ==
    /\ handler = "on_clicked"
    /\ value = <<"*">>
    /\ outcome = "Ok"
    /\ calculator.current_number = << >>
    /\ calculator.operation = Some("+")
    /\ calculator.display = <<"0">>

\* C9: a click fails only for "=": every other token that reaches push
\* returns Ok
FailuresOnlyFromEquals ==
    (handler = "on_clicked" /\ outcome # "BorrowMutError" /\ value # Equals)
        => outcome = "Ok"

\* C10: operation is unset or one of + - * /, and no call has returned
\* InvalidOperation
InvalidOperationUnreachable ==
    /\ calculator.operation \in {None, Some("+"), Some("-"), Some("*"), Some("/")}
    /\ outcome # InvalidOperation

\* 1 * 1 = went through the match on the operator and returned Ok
InvalidOperationUnreachableWitness ==
    /\ handler = "on_clicked"
    /\ value = Equals
    /\ outcome = "Ok"
    /\ calculator.history = << <<"1", " ", "*", " ", "1", " ", "=", " ", "1">> >>


\* C11: "ac" returns Ok and leaves display "0", an empty current_number, no
\* operation and no previous_number, with the history as it was; an "ac" right
\* after an "ac" changes nothing
ClearAllResets ==
    [][PushStep(ClearAll)
       => /\ outcome' = "Ok"
          /\ calculator' = [new EXCEPT !.history = calculator.history]
          /\ (handler = "on_clicked" /\ value = ClearAll)
                 => calculator' = calculator]_vars

\* "ac" has cleared a calculator that keeps the entry "1 + 1 = 2"
ClearAllResetsWitness ==
    /\ handler = "on_clicked"
    /\ value = ClearAll
    /\ outcome = "Ok"
    /\ calculator.display = <<"0">>
    /\ calculator.operation = None
    /\ calculator.previous_number = None
    /\ calculator.history = << <<"1", " ", "+", " ", "1", " ", "=", " ", "2">> >>


\* the rendered entry e ends in " = " followed by the text s
EndsWithResult(e, s) ==
    /\ Len(e) >= Len(s) + 3
    /\ SubSeq(e, Len(e) - Len(s) - 2, Len(e)) = <<" ", "=", " ">> \o s

\* the step is a replay that got the borrow
ReplayStep == handler' = "replay" /\ outcome' # "BorrowMutError"

\* C12: the entry a successful "=" appends ends in the result string it leaves
\* in current_number, and replaying an entry of the history leaves exactly
\* that string in current_number and display and leaves history, operation
\* and previous_number as they were
ReplaySetsOnlyCurrent ==
    [][/\ (/\ PushStep(Equals)
           /\ Len(calculator'.history) > Len(calculator.history))
          => EndsWithResult(calculator'.history[Len(calculator'.history)],
                            calculator'.current_number)
       /\ ReplayStep
          => /\ \E i \in 1..Len(calculator.history) :
                     calculator.history[i] = value'
             /\ EndsWithResult(value', calculator'.current_number)
             /\ calculator'.display = calculator'.current_number
             /\ calculator'.history = calculator.history
             /\ calculator'.operation = calculator.operation
             /\ calculator'.previous_number = calculator.previous_number]_vars

\* the negative result of "0 - 1 = -1" was replayed as the right operand of
\* a pending 1 +
ReplaySetsOnlyCurrentWitness ==
    /\ handler = "replay"
    /\ value = <<"0", " ", "-", " ", "1", " ", "=", " ", "-", "1">>
    /\ calculator.current_number = <<"-", "1">>
    /\ calculator.operation = Some("+")
    /\ calculator.previous_number = Some(F64(FALSE, 1, 0))


BackspaceRemovesOne ==
    [][PushStep(Backspace)
       => /\ outcome' = "Ok"
          /\ IF calculator.current_number = << >>
             THEN calculator' = calculator
             ELSE /\ calculator.current_number =
                         Append(calculator'.current_number,
                                calculator.current_number[
                                    Len(calculator.current_number)])
                  /\ calculator'.display =
                         IF calculator'.current_number = << >>
                         THEN <<"0">>
                         ELSE calculator'.current_number
                  /\ calculator'.operation = calculator.operation
                  /\ calculator'.previous_number = calculator.previous_number
                  /\ calculator'.history = calculator.history]_vars

\* "<" has left the "-" of a negative result on display
BackspaceRemovesOneWitness ==
    /\ handler = "on_clicked"
    /\ value = Backspace
    /\ outcome = "Ok"
    /\ calculator.current_number = <<"-">>
    /\ calculator.display = <<"-">>
    /\ Len(calculator.history) = 1


\* the tokens that match none of the arms + - * / = ac <
AppendTokens == Tokens \ (OperatorTokens \cup {Equals, ClearAll, Backspace})

\* C15: a token that is none of + - * / = ac < returns Ok and is appended
\* as it is to the end of current_number, a second "." included; display
\* follows, and operation, previous_number and history stay as they were
DefaultAppends ==
    [][\A v \in AppendTokens :
          PushStep(v)
          => /\ outcome' = "Ok"
             /\ calculator'.current_number = calculator.current_number \o v
             /\ calculator'.display = calculator'.current_number
             /\ calculator'.operation = calculator.operation
             /\ calculator'.previous_number = calculator.previous_number
             /\ calculator'.history = calculator.history]_vars

\* a second decimal point was appended while 1 / was pending
DefaultAppendsWitness ==
    /\ handler = "on_clicked"
    /\ value = <<".">>
    /\ outcome = "Ok"
    /\ calculator.current_number = <<".", ".">>
    /\ calculator.operation = Some("/")
    /\ calculator.previous_number = Some(F64(FALSE, 1, 0))


\* C16: no borrow of the RefCell is ever refused: no handler finds the cell
\* already borrowed, and no view re-rendered under a handler's RefMut does
BorrowNeverFails == outcome \notin {"BorrowMutError", "BorrowError"}


\* C17: a click for which push returns an Err writes neither signal and
\* leaves the calculator as it was
FailurePublishesNothing ==
    [][(/\ handler' = "on_clicked"
        /\ outcome' \in {DivisionByZero, InvalidOperation})
       => /\ published' = {}
          /\ display_sig' = display_sig
          /\ history_sig' = history_sig
          /\ calculator' = calculator]_vars

\* after 1 + 1 = the division 2 / 0 = has failed: nothing was written, the
\* signals still show "0" and the one entry
FailurePublishesNothingWitness ==
    /\ handler = "on_clicked"
    /\ outcome = DivisionByZero
    /\ published = {}
    /\ display_sig = <<"0">>
    /\ history_sig = << <<"1", " ", "+", " ", "1", " ", "=", " ", "2">> >>
    /\ calculator.previous_number = Some(F64(FALSE, 2, 0))

\* C18: after every handler the display signal is the calculator's display
\* and the history signal is the calculator's history
SignalsNeverStale ==
    /\ display_sig = calculator.display
    /\ history_sig = calculator.history

\* a replay has written the display signal only, and both signals are current
SignalsNeverStaleWitness ==
    /\ handler = "replay"
    /\ published = {"display"}
    /\ display_sig = <<"2">>
    /\ calculator.display = <<"2">>
    /\ Len(history_sig) = 1
    /\ history_sig = calculator.history


\* the calculator is as a successful "=" leaves it: nothing pending, and
\* current_number is the result text of the newest history entry
JustCommitted ==
    /\ handler = "on_clicked"
    /\ value = Equals
    /\ outcome = "Ok"
    /\ calculator.previous_number = None
    /\ calculator.operation = None
    /\ Len(calculator.history) > 0
    /\ EndsWithResult(calculator.history[Len(calculator.history)],
                      calculator.current_number)

\* C19: a successful "=" leaves a non-empty current_number that parses back
\* to the result of the computation, and an operator that follows it returns
\* Ok and takes that result as previous_number
ResultChains ==
    [][/\ (/\ PushStep(Equals)
           /\ Len(calculator'.history) > Len(calculator.history))
          => /\ calculator'.current_number # << >>
             /\ Parse(calculator'.current_number).kind = "val"
             /\ IsResultOf(Parse(calculator'.current_number).v,
                           Get(calculator.operation),
                           Get(calculator.previous_number),
                           Parse(calculator.current_number).v)
             /\ JustCommitted'
       /\ (JustCommitted /\ \E v \in OperatorTokens : PushStep(v))
          => /\ outcome' = "Ok"
             /\ calculator'.operation = Some(Head(value'))
             /\ IsSome(calculator'.previous_number)
             /\ to_string(Get(calculator'.previous_number))
                    = calculator.current_number
             /\ calculator'.current_number = << >>
             /\ calculator'.history = calculator.history]_vars

\* after 1 + 1 = the operator "*" was accepted with the result 2 as its left
\* operand
ResultChainsWitness ==
    /\ handler = "on_clicked"
    /\ value = <<"*">>
    /\ outcome = "Ok"
    /\ calculator.operation = Some("*")
    /\ calculator.previous_number = Some(F64(FALSE, 2, 0))
    /\ calculator.current_number = << >>
    /\ calculator.history = << <<"1", " ", "+", " ", "1", " ", "=", " ", "2">> >>


\* C20: an operator accepted on a non-empty current_number while an operation
\* is pending puts the parsed current number in previous_number and the new
\* symbol in operation, empties current_number and leaves the history as it
\* was: the pending computation is dropped, not evaluated
SecondOperatorOverwrites ==
    [][(/\ \E v \in OperatorTokens : PushStep(v)
        /\ IsSome(calculator.operation)
        /\ IsSome(calculator.previous_number)
        /\ calculator.current_number # << >>
        /\ outcome' = "Ok")
       => /\ Parse(calculator.current_number).kind = "val"
          /\ calculator'.previous_number =
                 Some(Parse(calculator.current_number).v)
          /\ calculator'.operation = Some(Head(value'))
          /\ calculator'.current_number = << >>
          /\ calculator'.display = <<"0">>
          /\ calculator'.history = calculator.history]_vars

\* "*" was accepted with 0 as its left operand and nothing in the history,
\* as after 1 + 0 *
SecondOperatorOverwritesWitness ==
    /\ handler = "on_clicked"
    /\ value = <<"*">>
    /\ outcome = "Ok"
    /\ calculator.operation = Some("*")
    /\ calculator.previous_number = Some(F64(FALSE, 0, 0))
    /\ calculator.current_number = << >>
    /\ calculator.history = << >>

====
